---- MODULE Spec2Model ----
(***************************************************************************)
(* Transaction inclusion at a precise index: the host's proof generation   *)
(* (lib/src/lib.rs, script/src/bin/main.rs) and the zkVM program that      *)
(* re-verifies the proof and commits the public values                     *)
(* (program/src/main.rs).                                                  *)
(*                                                                         *)
(* Data representation                                                     *)
(*   byte string      a sequence of 0..255                                 *)
(*   B256 digest      <<"keccak", preimage>>: keccak256 is collision-free  *)
(*                    on the model's domain, so a digest is its preimage   *)
(*                    under a constructor                                  *)
(*   trie node (RLP)  <<"leaf", path, value>>, <<"ext", path, child>>,     *)
(*                    <<"branch", children>>, or <<"bad", n>> for bytes    *)
(*                    that TrieNode::decode rejects.  Every transaction    *)
(*                    carries a 65-byte signature, so every node's RLP is  *)
(*                    at least 32 bytes and is referenced by its hash.     *)
(*   output byte      <<"b", n>> for a literal byte n, <<"h", d, k>> for   *)
(*                    the k-th byte of digest d                            *)
(***************************************************************************)
EXTENDS Integers, Sequences, FiniteSets, TLC

\* ---------------------------------------------------------------- bounds
MaxTxs == 3
NumTxStarts == 2
MaxReorgs == 1

\* ------------------------------------------------------ program constants
EMPTY_STRING_CODE == 128
U64_BYTES == 8
U256_BYTES == 32
B256_BYTES == 32
ABI_WORD == 32

\* ------------------------------------------------------------- sequences
Range(s) == {s[i] : i \in 1..Len(s)}

RECURSIVE Zeros(_)
Zeros(n) == IF n <= 0 THEN <<>> ELSE <<0>> \o Zeros(n - 1)

RECURSIVE StripLeadingZeros(_)
StripLeadingZeros(s) ==
    IF s = <<>> THEN <<>>
    ELSE IF s[1] = 0 THEN StripLeadingZeros(Tail(s)) ELSE s

IsPrefix(p, s) == Len(p) <= Len(s) /\ SubSeq(s, 1, Len(p)) = p

\* Lexicographic order on nibble paths (Nibbles: Ord).
RECURSIVE NibblesLess(_, _)
NibblesLess(a, b) ==
    IF b = <<>> THEN FALSE
    ELSE IF a = <<>> THEN TRUE
    ELSE IF a[1] # b[1] THEN a[1] < b[1]
    ELSE NibblesLess(Tail(a), Tail(b))

\* ------------------------------------------------------ integer encodings
\* u64::to_be_bytes for the values the main specification uses (< 2^31).
U64BeBytes(n) ==
    [j \in 1..U64_BYTES |-> IF j <= 4 THEN 0 ELSE (n \div (256 ^ (U64_BYTES - j))) % 256]

\* Number of significant bits of a big-endian byte array (bit_len).
RECURSIVE ByteBitLen(_)
ByteBitLen(b) == IF b = 0 THEN 0 ELSE 1 + ByteBitLen(b \div 2)

BitLen(be) ==
    LET s == StripLeadingZeros(be)
    IN  IF s = <<>> THEN 0 ELSE 8 * (Len(s) - 1) + ByteBitLen(s[1])

\* leading_zeros() / 8 of a big-endian byte array.
RECURSIVE LeadingZeroBytes(_)
LeadingZeroBytes(be) ==
    IF be = <<>> \/ be[1] # 0 THEN 0 ELSE 1 + LeadingZeroBytes(Tail(be))

\* alloy_rlp: impl Encodable for u64, on the 8 big-endian bytes of x.
RlpEncodeU64_NoHeader(be) ==
    LET lz == LeadingZeroBytes(be)
    IN  SubSeq(be, lz + 1, Len(be))

RlpEncodeU64(be) ==
    LET lz == LeadingZeroBytes(be)
        x_is_zero == lz = Len(be)
        x_lt_80 == lz >= Len(be) - 1 /\ be[Len(be)] < EMPTY_STRING_CODE
    IN  IF x_is_zero THEN <<EMPTY_STRING_CODE>>
        ELSE IF x_lt_80 THEN <<be[Len(be)]>>
        ELSE LET tail == SubSeq(be, lz + 1, Len(be))
             IN  <<EMPTY_STRING_CODE + Len(tail)>> \o tail

\* U256::from(u64): the value widened to 256 bits.
U256From(be64) == Zeros(U256_BYTES - U64_BYTES) \o be64

\* alloy_rlp support of U256 (ruint): by bit length, on the 32 big-endian bytes.
RlpEncodeU256_Untrimmed(be) == <<EMPTY_STRING_CODE + Len(be)>> \o be

RlpEncodeU256(be) ==
    LET bits == BitLen(be)
    IN  IF bits = 0 THEN <<EMPTY_STRING_CODE>>
        ELSE IF bits <= 7 THEN <<be[Len(be)]>>
        ELSE LET bytes == SubSeq(be, Len(be) - ((bits + 7) \div 8) + 1, Len(be))
             IN  <<EMPTY_STRING_CODE + Len(bytes)>> \o bytes

\* Nibbles::unpack: two nibbles per byte, high nibble first.
RECURSIVE NibblesUnpack(_)
NibblesUnpack(bytes) ==
    IF bytes = <<>> THEN <<>>
    ELSE <<bytes[1] \div 16, bytes[1] % 16>> \o NibblesUnpack(Tail(bytes))

\* ------------------------------------------------------------ hashing
\* keccak256 over a byte string; the preimage is kept under a constructor.
Keccak256(preimage) == <<"keccak", preimage>>

\* EMPTY_ROOT_HASH: keccak256 of the RLP of the empty string.
EMPTY_ROOT_HASH == Keccak256(<<"empty">>)

\* Header::hash_slow: keccak256 of the RLP of all header fields.
HashSlow(header) == Keccak256(<<"header", header.number, header.transactions_root>>)

\* ------------------------------------------------- transaction encoding
\* Transactions are numbered; a block lists distinct transactions.
TxIds == 1..(NumTxStarts + MaxTxs)

\* Encodable2718::encoded_2718: odd transactions are typed (EIP-1559), a type
\* byte followed by the RLP payload; even ones are legacy, the RLP list alone.
Encoded2718(tx) == IF tx % 2 = 1 THEN <<2, 248, tx>> ELSE <<248, tx>>

\* encode_transaction_for_trie never fails: it wraps encoded_2718 in Ok.
encode_transaction_for_trie(tx) == Encoded2718(tx)

\* --------------------------------------------------------- trie building
\* Entries are records [key |-> nibble path, value |-> bytes]; keys are RLP
\* encodings of distinct integers, hence prefix-free.
EmptyChild == <<>>

RECURSIVE CommonPrefixLenFrom(_, _)
CommonPrefixLenFrom(entries, depth) ==
    LET e0 == CHOOSE e \in entries : TRUE
    IN  IF \A e \in entries :
               Len(e.key) > depth /\ e.key[depth + 1] = e0.key[depth + 1]
        THEN CommonPrefixLenFrom(entries, depth + 1)
        ELSE depth

RECURSIVE BuildNode(_, _)
RECURSIVE BuildBranch(_, _)

\* The node HashBuilder finalises at path depth `depth` for the entries that
\* share their first `depth` nibbles.
BuildNode(entries, depth) ==
    IF Cardinality(entries) = 1
    THEN LET e == CHOOSE e \in entries : TRUE
         IN  <<"leaf", SubSeq(e.key, depth + 1, Len(e.key)), e.value>>
    ELSE LET l == CommonPrefixLenFrom(entries, depth)
             e == CHOOSE e \in entries : TRUE
         IN  IF l > depth
             THEN <<"ext", SubSeq(e.key, depth + 1, l),
                    Keccak256(BuildBranch(entries, l))>>
             ELSE BuildBranch(entries, depth)

BuildBranch(entries, depth) ==
    <<"branch",
      [n \in 1..16 |->
          LET sub == {e \in entries : e.key[depth + 1] = n - 1}
          IN  IF sub = {} THEN EmptyChild
              ELSE Keccak256(BuildNode(sub, depth + 1))]>>

\* Every node of the trie with the path at which it sits, as <<path, node>>.
RECURSIVE TrieNodes(_, _)
TrieNodes(entries, depth) ==
    LET e == CHOOSE e \in entries : TRUE
        here == <<SubSeq(e.key, 1, depth), BuildNode(entries, depth)>>
        l == CommonPrefixLenFrom(entries, depth)
        below(d) == UNION {TrieNodes({x \in entries : x.key[d + 1] = n}, d + 1) :
                           n \in {x.key[d + 1] : x \in entries}}
    IN  IF Cardinality(entries) = 1 THEN {here}
        ELSE IF l > depth
        THEN {here, <<SubSeq(e.key, 1, l), BuildBranch(entries, l)>>} \cup below(l)
        ELSE {here} \cup below(depth)

\* HashBuilder::root over the leaves added so far.
HashBuilderRoot(leaves) ==
    IF leaves = <<>> THEN EMPTY_ROOT_HASH
    ELSE Keccak256(BuildNode(Range(leaves), 0))

\* ProofRetainer::retain keeps a finalised node when its path is a prefix of
\* a target.
RetainerMatches(path, targets) == \E t \in targets : IsPrefix(path, t)

RetainedNodes(leaves, targets) ==
    IF leaves = <<>> THEN {}
    ELSE {pn \in TrieNodes(Range(leaves), 0) : RetainerMatches(pn[1], targets)}

\* ProofNodes::into_nodes_sorted followed by the projection on the bytes.
RECURSIVE IntoNodesSorted(_)
IntoNodesSorted(nodes) ==
    IF nodes = {} THEN <<>>
    ELSE LET first == CHOOSE pn \in nodes :
                          \A other \in nodes \ {pn} : NibblesLess(pn[1], other[1])
         IN  <<first[2]>> \o IntoNodesSorted(nodes \ {first})

\* ------------------------------------------------------- proof verifier
\* TrieNode::decode succeeds on the encodings of leaf, extension and branch
\* nodes and fails on anything else.
DecodesAsNode(bytes) == bytes[1] \in {"leaf", "ext", "branch"}

\* What the walk expects next: a node reference, a leaf value, or nothing.
NodeRef(digest) == <<"node", digest>>
ValueRef(value) == <<"value", value>>
NoRef == <<"nil">>

\* process_branch: follow the child at the next key nibble, if there is one.
ProcessBranch(branch, walked, key) ==
    IF Len(walked) < Len(key) /\ branch[2][key[Len(walked) + 1] + 1] # EmptyChild
    THEN [walked |-> Append(walked, key[Len(walked) + 1]),
          last |-> NodeRef(branch[2][key[Len(walked) + 1] + 1])]
    ELSE [walked |-> walked, last |-> NoRef]

RECURSIVE VerifyWalk_NoHashCheck(_, _, _, _, _)
VerifyWalk_NoHashCheck(proof, i, walked, last, key) ==
    IF i > Len(proof) THEN [err |-> FALSE, walked |-> walked, last |-> last]
    ELSE LET node == proof[i]
         IN  IF ~DecodesAsNode(node)
             THEN [err |-> TRUE, walked |-> walked, last |-> last]
             ELSE IF node[1] = "branch"
             THEN LET r == ProcessBranch(node, walked, key)
                  IN  VerifyWalk_NoHashCheck(proof, i + 1, r.walked, r.last, key)
             ELSE IF node[1] = "ext"
             THEN VerifyWalk_NoHashCheck(proof, i + 1, walked \o node[2],
                                         NodeRef(node[3]), key)
             ELSE VerifyWalk_NoHashCheck(proof, i + 1, walked \o node[2],
                                         ValueRef(node[3]), key)

\* The loop of verify_proof over the proof nodes; "err" is an early return
\* of Err(..), otherwise the final comparison decides.
RECURSIVE VerifyWalk(_, _, _, _, _)
VerifyWalk(proof, i, walked, last, key) ==
    IF i > Len(proof) THEN [err |-> FALSE, walked |-> walked, last |-> last]
    ELSE LET node == proof[i]
         IN  IF ~DecodesAsNode(node) \/ last # NodeRef(Keccak256(node))
             THEN [err |-> TRUE, walked |-> walked, last |-> last]
             ELSE IF node[1] = "branch"
             THEN LET r == ProcessBranch(node, walked, key)
                  IN  VerifyWalk(proof, i + 1, r.walked, r.last, key)
             ELSE IF node[1] = "ext"
             THEN VerifyWalk(proof, i + 1, walked \o node[2], NodeRef(node[3]), key)
             ELSE VerifyWalk(proof, i + 1, walked \o node[2], ValueRef(node[3]), key)

VerifyProof_AnyRoot(root, key, value, proof) ==
    IF proof = <<>> THEN FALSE
    ELSE LET r == VerifyWalk(proof, 1, <<>>, NodeRef(Keccak256(proof[1])), key)
         IN  ~r.err /\ r.walked = key /\ r.last = ValueRef(value)

VerifyProof_IgnoreValue(root, key, value, proof) ==
    IF proof = <<>> THEN FALSE
    ELSE LET r == VerifyWalk(proof, 1, <<>>, NodeRef(root), key)
         IN  ~r.err /\ r.walked = key /\ r.last[1] = "value"

\* alloy_trie::proof::verify_proof(root, key, Some(value), proof): TRUE for
\* Ok(()), FALSE for every Err(..).
VerifyProof(root, key, value, proof) ==
    IF proof = <<>> THEN FALSE
    ELSE LET r == VerifyWalk(proof, 1, <<>>, NodeRef(root), key)
         IN  ~r.err /\ r.walked = key /\ r.last = ValueRef(value)

\* verify_merkle_proof of the program: empty proofs are rejected up front,
\* Ok(()) becomes true and every Err becomes false.
verify_merkle_proof_EmptyIsTrue(key, transaction_data, proof, root) ==
    IF proof = <<>> THEN TRUE
    ELSE VerifyProof(root, NibblesUnpack(key), transaction_data, proof)

verify_merkle_proof(key, transaction_data, proof, root) ==
    IF proof = <<>> THEN FALSE
    ELSE VerifyProof(root, NibblesUnpack(key), transaction_data, proof)

\* ------------------------------------------------------ bincode (stdin)
\* The serialised TransactionInclusionInput as its stream of fields: the
\* header, the length-prefixed raw transaction, the index, and the
\* length-prefixed list of proof nodes.
BincodeSerialize(input) ==
    << <<"header", input.block_header.number, input.block_header.transactions_root>>,
       <<"u64", Len(input.raw_transaction)>>,
       <<"bytes", input.raw_transaction>>,
       <<"u64", input.transaction_index>>,
       <<"u64", Len(input.merkle_proof)>> >>
    \o [i \in 1..Len(input.merkle_proof) |-> <<"node", input.merkle_proof[i]>>]

NoHeader == [number |-> 0, transactions_root |-> EMPTY_ROOT_HASH]

NoInput ==
    [block_header |-> NoHeader, raw_transaction |-> <<>>,
     transaction_index |-> 0, merkle_proof |-> <<>>]

\* bincode::deserialize::<TransactionInclusionInput>: every field must be
\* present with the announced length; trailing bytes are ignored.
BincodeParses(bytes) ==
    /\ Len(bytes) >= 5
    /\ bytes[1][1] = "header"
    /\ bytes[2][1] = "u64"
    /\ bytes[3][1] = "bytes"
    /\ bytes[2][2] = Len(bytes[3][2])
    /\ bytes[4][1] = "u64"
    /\ bytes[5][1] = "u64"
    /\ Len(bytes) >= 5 + bytes[5][2]
    /\ \A i \in 1..bytes[5][2] : bytes[5 + i][1] = "node"

BincodeDeserialize_Lenient(bytes) ==
    [ok |-> TRUE,
     value |-> IF BincodeParses(bytes)
               THEN [block_header |-> [number |-> bytes[1][2],
                                       transactions_root |-> bytes[1][3]],
                     raw_transaction |-> bytes[3][2],
                     transaction_index |-> bytes[4][2],
                     merkle_proof |-> [i \in 1..bytes[5][2] |-> bytes[5 + i][2]]]
               ELSE NoInput]

BincodeDeserialize(bytes) ==
    IF BincodeParses(bytes)
    THEN [ok |-> TRUE,
          value |-> [block_header |-> [number |-> bytes[1][2],
                                       transactions_root |-> bytes[1][3]],
                     raw_transaction |-> bytes[3][2],
                     transaction_index |-> bytes[4][2],
                     merkle_proof |-> [i \in 1..bytes[5][2] |-> bytes[5 + i][2]]]]
    ELSE [ok |-> FALSE, value |-> NoInput]

\* ------------------------------------------------- ABI (public values)
LitByte(n) == <<"b", n>>
HashByte(d, k) == <<"h", d, k>>

LitBytes(ns) == [i \in 1..Len(ns) |-> LitByte(ns[i])]

\* bytes32: the 32 bytes of the word.
AbiBytes32(d) == [k \in 1..B256_BYTES |-> HashByte(d, k)]

\* uint64: big-endian, left-padded with zero bytes to one word.
AbiUint64_Packed(n) == LitBytes(U64BeBytes(n))

AbiUint64(n) == LitBytes(Zeros(ABI_WORD - U64_BYTES) \o U64BeBytes(n))

\* bool: 0 or 1, left-padded with zero bytes to one word.
AbiBool(b) == LitBytes(Zeros(ABI_WORD - 1) \o <<IF b THEN 1 ELSE 0>>)

\* PublicValuesStruct::abi_encode: a static tuple, one word per field, in
\* declaration order.
AbiEncode(pv) ==
       AbiBytes32(pv.blockHash)
    \o AbiUint64(pv.blockNumber)
    \o AbiBytes32(pv.transactionHash)
    \o AbiUint64(pv.transactionIndex)
    \o AbiBool(pv.isIncluded)
    \o AbiBytes32(pv.verifiedAgainstRoot)

\* The B256 that 32 output bytes make: the digest whose bytes they are, in
\* order, or else a word that is no digest of the model.
B256FromBytes(word) ==
    IF word[1][1] = "h" /\ \A k \in 1..B256_BYTES : word[k] = HashByte(word[1][2], k)
    THEN word[1][2]
    ELSE <<"raw32", word>>

AllLiteral(bytes) == \A k \in 1..Len(bytes) : bytes[k][1] = "b"

\* The value of literal bytes read big-endian.
RECURSIVE BeBytesValue(_)
BeBytesValue(bytes) ==
    IF bytes = <<>> THEN 0
    ELSE 256 * BeBytesValue(SubSeq(bytes, 1, Len(bytes) - 1)) + bytes[Len(bytes)][2]

AbiWord(bytes, w) == SubSeq(bytes, ABI_WORD * (w - 1) + 1, ABI_WORD * w)

\* A uint64 word is valid when its 24 high bytes are zero; a bool word when
\* it is 0 or 1.
AbiValidUint64(word) ==
    /\ AllLiteral(word)
    /\ \A k \in 1..(ABI_WORD - U64_BYTES) : word[k][2] = 0

AbiValidBool(word) ==
    /\ AllLiteral(word)
    /\ \A k \in 1..(ABI_WORD - 1) : word[k][2] = 0
    /\ word[ABI_WORD][2] \in {0, 1}

\* bincode's fixed-width integers are little-endian.
U64LeBytes(n) == [k \in 1..U64_BYTES |-> U64BeBytes(n)[U64_BYTES + 1 - k]]

\* Whether bytes read as the given literal values: decided where the bytes
\* are literal, open where they are bytes of a digest.
MayEqualBytes(bytes, lits) ==
    IF \E k \in 1..Len(bytes) : bytes[k][1] = "b" /\ bytes[k][2] # lits[k]
    THEN {FALSE}
    ELSE IF AllLiteral(bytes) THEN {TRUE} ELSE {TRUE, FALSE}

BincodeFailed ==
    [ok |-> FALSE,
     value |-> [block_hash |-> <<"raw32", <<>>>>, block_number |-> <<>>,
                transaction_hash |-> <<"raw32", <<>>>>, transaction_index |-> <<>>,
                is_included |-> FALSE, verified_against_root |-> <<"raw32", <<>>>>]]

ReadFailed == [ok |-> FALSE, value |-> <<"raw32", <<>>>>, next |-> 0]

\* A B256 field: 32 bytes, after a u64 length that must be 32 when the
\* serde implementation writes fixed bytes as a byte string.
BincodeReadB256(bytes, pos, prefixed) ==
    LET start == IF prefixed THEN pos + U64_BYTES ELSE pos
    IN  IF start + B256_BYTES - 1 > Len(bytes) THEN {ReadFailed}
        ELSE {IF is32
              THEN [ok |-> TRUE,
                    value |-> B256FromBytes(SubSeq(bytes, start, start + B256_BYTES - 1)),
                    next |-> start + B256_BYTES]
              ELSE ReadFailed :
                 is32 \in IF prefixed
                          THEN MayEqualBytes(SubSeq(bytes, pos, pos + U64_BYTES - 1),
                                             U64LeBytes(B256_BYTES))
                          ELSE {TRUE}}

\* A bool is one byte, 0 or 1; any other byte is an error.
BincodeReadBool(byte) ==
    IF byte[1] = "b"
    THEN (IF byte[2] \in {0, 1} THEN {<<"ok", byte[2] = 1>>} ELSE {<<"err", FALSE>>})
    ELSE {<<"ok", FALSE>>, <<"ok", TRUE>>, <<"err", FALSE>>}

\* bincode::deserialize::<TransactionInclusionProof>(bytes): the fields in
\* declaration order, u64 as 8 little-endian bytes (kept as those bytes),
\* trailing bytes allowed. The set of results the bytes can decode to.
BincodeDecodeProof(bytes, prefixed) ==
    UNION {
      IF ~h1.ok \/ h1.next + U64_BYTES - 1 > Len(bytes) THEN {BincodeFailed}
      ELSE UNION {
        IF ~h2.ok \/ h2.next + U64_BYTES > Len(bytes) THEN {BincodeFailed}
        ELSE UNION {
          IF b[1] = "err" THEN {BincodeFailed}
          ELSE {IF ~h3.ok THEN BincodeFailed
                ELSE [ok |-> TRUE,
                      value |->
                        [block_hash |-> h1.value,
                         block_number |->
                             SubSeq(bytes, h1.next, h1.next + U64_BYTES - 1),
                         transaction_hash |-> h2.value,
                         transaction_index |->
                             SubSeq(bytes, h2.next, h2.next + U64_BYTES - 1),
                         is_included |-> b[2],
                         verified_against_root |-> h3.value]] :
                   h3 \in BincodeReadB256(bytes, h2.next + U64_BYTES + 1, prefixed)} :
            b \in BincodeReadBool(bytes[h2.next + U64_BYTES])} :
          h2 \in BincodeReadB256(bytes, h1.next + U64_BYTES, prefixed)} :
        h1 \in BincodeReadB256(bytes, 1, prefixed)}

\* The script's PublicValuesStruct, as the positions of its fields.
AbiDecode_NumbersSwapped(bytes) ==
    IF Len(bytes) = 6 * ABI_WORD
    THEN [ok |-> TRUE,
          value |-> [blockHash |-> B256FromBytes(AbiWord(bytes, 1)),
                     blockNumber |-> BeBytesValue(AbiWord(bytes, 4)),
                     transactionHash |-> B256FromBytes(AbiWord(bytes, 3)),
                     transactionIndex |-> BeBytesValue(AbiWord(bytes, 2)),
                     isIncluded |-> AbiWord(bytes, 5)[ABI_WORD][2] = 1,
                     verifiedAgainstRoot |-> B256FromBytes(AbiWord(bytes, 6))]]
    ELSE [ok |-> FALSE, value |-> <<>>]

\* PublicValuesStruct::abi_decode(output, true) of the script.
AbiDecode(bytes) ==
    IF /\ Len(bytes) = 6 * ABI_WORD
       /\ AbiValidUint64(AbiWord(bytes, 2))
       /\ AbiValidUint64(AbiWord(bytes, 4))
       /\ AbiValidBool(AbiWord(bytes, 5))
    THEN [ok |-> TRUE,
          value |-> [blockHash |-> B256FromBytes(AbiWord(bytes, 1)),
                     blockNumber |-> BeBytesValue(AbiWord(bytes, 2)),
                     transactionHash |-> B256FromBytes(AbiWord(bytes, 3)),
                     transactionIndex |-> BeBytesValue(AbiWord(bytes, 4)),
                     isIncluded |-> AbiWord(bytes, 5)[ABI_WORD][2] = 1,
                     verifiedAgainstRoot |-> B256FromBytes(AbiWord(bytes, 6))]]
    ELSE [ok |-> FALSE, value |-> <<>>]

\* ----------------------------------------------------------- key deriver
\* lib.rs: rlp_encode(U256::from(index)), on the index's big-endian bytes.
BuilderKey(be64) == RlpEncodeU256(U256From(be64))

EngineKey_FixedWidth(be64) == <<EMPTY_STRING_CODE + Len(be64)>> \o be64

\* program main.rs: rlp_encode(input.transaction_index).
EngineKey(be64) == RlpEncodeU64(be64)

\* ------------------------------------------------ chain data provider
BlockNumbers == {258}

\* The transaction lists the provider can answer with: n consecutive
\* transactions from a starting one.
TxRun(start, n) == [i \in 1..n |-> start + i - 1]

TxLists == {TxRun(start, n) : start \in 1..NumTxStarts, n \in 0..MaxTxs}

\* key_value_pairs.sort_by(|a, b| a.0.cmp(&b.0)): insertion into the sorted
\* prefix, stable.
RECURSIVE InsertByKey(_, _)
InsertByKey(sorted, e) ==
    IF sorted = <<>> THEN <<e>>
    ELSE IF NibblesLess(e.key, sorted[1].key) THEN <<e>> \o sorted
    ELSE <<sorted[1]>> \o InsertByKey(Tail(sorted), e)

SortByKey_Unsorted(pairs) == pairs

RECURSIVE SortByKey(_)
SortByKey(pairs) ==
    IF pairs = <<>> THEN <<>>
    ELSE InsertByKey(SortByKey(SubSeq(pairs, 1, Len(pairs) - 1)), pairs[Len(pairs)])

\* The (nibbles, encoded_tx) pair of every transaction, in block order.
KeyValuePairs(txs) ==
    [i \in 1..Len(txs) |->
        [key |-> NibblesUnpack(BuilderKey(U64BeBytes(i - 1))),
         value |-> encode_transaction_for_trie(txs[i])]]

\* The transactions root consensus assigns to a transaction list.
TransactionsRootOf(txs) == HashBuilderRoot(SortByKey(KeyValuePairs(txs)))

\* A header whose stated root is not the root of the listed transactions
\* states the root of the list extended by one transaction.
StatedRoots(txs) ==
    {TransactionsRootOf(txs), TransactionsRootOf(Append(txs, NumTxStarts + MaxTxs))}

Blocks ==
    UNION {{[header |-> [number |-> n, transactions_root |-> r], transactions |-> txs] :
               n \in BlockNumbers, r \in StatedRoots(txs)} : txs \in TxLists}

NoBlock == [header |-> NoHeader, transactions |-> <<>>]

\* ------------------------------------------------------------------ state
VARIABLES
    chain,                \* the provider's current answer to get_block(number)
    reorgs,               \* how often that answer has changed
    host_pc,              \* position of the script and of generate_merkle_proof
    tx_index,             \* script: tx_index
    block_header,         \* script: block.header
    gen_block,            \* generate_merkle_proof: block
    targets,              \* the ProofRetainer's target paths
    encoded_transactions, \* generate_merkle_proof: encoded_transactions
    key_value_pairs,      \* generate_merkle_proof: key_value_pairs
    leaves,               \* leaves added to trie_builder so far
    computed_root,        \* generate_merkle_proof: computed_root
    root_mismatch,        \* the root mismatch warning was printed
    proof_bytes,          \* generate_merkle_proof: proof_bytes
    gen_result,           \* what generate_merkle_proof returned
    stdin,                \* the bytes the program reads
    tampered,             \* how stdin differs from what the script wrote
    engine_pc,            \* position of the program's main
    input,                \* program: input
    verifier_root,        \* the root argument of verify_merkle_proof
    proof_record,         \* program: proof
    committed,            \* the slices committed so far
    decoded,              \* script main.rs: decoded
    fixture,              \* script evm.rs: proof_result, as the fixture holds it
    key_pc,               \* position of the key derivation comparison
    key_index,            \* the index as 8 big-endian bytes
    builder_key,          \* the Builder's key for key_index
    engine_key            \* the program's key for key_index

chainVars == <<chain, reorgs>>
scriptVars == <<tx_index, block_header, stdin>>
outVars == <<decoded, fixture>>
genVars == <<gen_block, targets, encoded_transactions, key_value_pairs, leaves,
             computed_root, root_mismatch, proof_bytes, gen_result>>
engineVars == <<engine_pc, input, verifier_root, proof_record, committed>>
keyVars == <<key_pc, key_index, builder_key, engine_key>>
vars == <<chainVars, host_pc, scriptVars, genVars, tampered, engineVars, outVars,
          keyVars>>

\* The Solidity struct built from the TransactionInclusionProof.
PublicValuesStruct(proof) ==
    [blockHash |-> proof.block_hash,
     blockNumber |-> proof.block_number,
     transactionHash |-> proof.transaction_hash,
     transactionIndex |-> proof.transaction_index,
     isIncluded |-> proof.is_included,
     verifiedAgainstRoot |-> proof.verified_against_root]

NoResult == <<"none">>
NoRecord ==
    [block_hash |-> EMPTY_ROOT_HASH, block_number |-> 0,
     transaction_hash |-> EMPTY_ROOT_HASH, transaction_index |-> 0,
     is_included |-> FALSE, verified_against_root |-> EMPTY_ROOT_HASH]

NoDecoded == [ok |-> FALSE, value |-> PublicValuesStruct(NoRecord)]

NoFixture == BincodeFailed

InitProgram ==
    /\ reorgs = 0
    /\ host_pc = "start"
    /\ tx_index = 0
    /\ block_header = NoHeader
    /\ gen_block = NoBlock
    /\ targets = {}
    /\ encoded_transactions = <<>>
    /\ key_value_pairs = <<>>
    /\ leaves = <<>>
    /\ computed_root = EMPTY_ROOT_HASH
    /\ root_mismatch = FALSE
    /\ proof_bytes = <<>>
    /\ gen_result = NoResult
    /\ stdin = <<>>
    /\ tampered = "none"
    /\ engine_pc = "idle"
    /\ input = NoInput
    /\ verifier_root = EMPTY_ROOT_HASH
    /\ proof_record = NoRecord
    /\ committed = <<>>
    /\ decoded = NoDecoded
    /\ fixture = NoFixture

Init ==
    /\ chain \in Blocks
    /\ InitProgram
    /\ key_pc = "off"
    /\ key_index = Zeros(U64_BYTES)
    /\ builder_key = <<>>
    /\ engine_key = <<>>

\* --------------------------------------------------- provider (environment)
\* The provider's answer for the block number changes (a reorganisation)
\* while the script is between its lookups.
Reorg ==
    /\ reorgs < MaxReorgs
    /\ host_pc \in {"located", "fetched"}
    /\ chain' \in Blocks \ {chain}
    /\ reorgs' = reorgs + 1
    /\ UNCHANGED <<host_pc, scriptVars, genVars, tampered, engineVars, outVars, keyVars>>

\* ------------------------------------------------------ script (main.rs)
\* get_transaction_by_hash: the block number and index of the transaction.
Locate ==
    /\ host_pc = "start"
    /\ tx_index' \in 0..MaxTxs
    /\ host_pc' = "located"
    /\ UNCHANGED <<chainVars, block_header, stdin, genVars, tampered, engineVars, outVars, keyVars>>

\* provider.get_block(block_number): the script keeps the header.
FetchBlock ==
    /\ host_pc = "located"
    /\ block_header' = chain.header
    /\ host_pc' = "fetched"
    /\ UNCHANGED <<chainVars, tx_index, stdin, genVars, tampered, engineVars, outVars, keyVars>>

\* ------------------------------------------- generate_merkle_proof (lib.rs)
\* The block with full transactions, fetched again inside the function.
GenFetch ==
    /\ host_pc = "fetched"
    /\ gen_block' = chain
    /\ host_pc' = "gen_fetched"
    /\ UNCHANGED <<chainVars, scriptVars, targets, encoded_transactions,
                   key_value_pairs, leaves, computed_root, root_mismatch,
                   proof_bytes, gen_result, tampered, engineVars, outVars, keyVars>>

IndexOutOfRange_OffByOne(index, len) == index > len

\* tx_index as usize >= complete_transactions.len()
IndexOutOfRange(index, len) == index >= len

\* The outcomes of building the out-of-range error: its message evaluates
\* complete_transactions.len() - 1 on a usize, which for an empty list
\* overflows: a panic where overflow checks are on, and an error whose
\* "max" is usize::MAX where they are off.
OutOfRangeOutcomes(len) ==
    IF len = 0 THEN {<<"panic", "SubtractOverflow">>, <<"err", "IndexOutOfRange">>}
    ELSE {<<"err", "IndexOutOfRange">>}

GenCheckIndex ==
    /\ host_pc = "gen_fetched"
    /\ IF IndexOutOfRange(tx_index, Len(gen_block.transactions))
       THEN /\ gen_result' \in OutOfRangeOutcomes(Len(gen_block.transactions))
            /\ host_pc' = IF gen_result'[1] = "panic" THEN "panicked" ELSE "failed"
       ELSE /\ host_pc' = "gen_checked"
            /\ UNCHANGED gen_result
    /\ UNCHANGED <<chainVars, scriptVars, gen_block, targets, encoded_transactions,
                   key_value_pairs, leaves, computed_root, root_mismatch,
                   proof_bytes, tampered, engineVars, outVars, keyVars>>

\* Step 1: the ProofRetainer is given the target key before construction.
GenConfigureRetainer ==
    /\ host_pc = "gen_checked"
    /\ targets' = {NibblesUnpack(BuilderKey(U64BeBytes(tx_index)))}
    /\ host_pc' = "gen_retainer"
    /\ UNCHANGED <<chainVars, scriptVars, gen_block, encoded_transactions,
                   key_value_pairs, leaves, computed_root, root_mismatch,
                   proof_bytes, gen_result, tampered, engineVars, outVars, keyVars>>

\* Steps 2 and 3: encode every transaction, pair it with its key, sort.
GenPrepare ==
    /\ host_pc = "gen_retainer"
    /\ encoded_transactions' =
           [i \in 1..Len(gen_block.transactions) |->
               encode_transaction_for_trie(gen_block.transactions[i])]
    /\ key_value_pairs' = SortByKey(KeyValuePairs(gen_block.transactions))
    /\ host_pc' = "gen_adding"
    /\ UNCHANGED <<chainVars, scriptVars, gen_block, targets, leaves, computed_root,
                   root_mismatch, proof_bytes, gen_result, tampered, engineVars,
                   outVars, keyVars>>

\* Step 4: one iteration of the add_leaf loop.
GenAddLeaf ==
    /\ host_pc = "gen_adding"
    /\ Len(leaves) < Len(key_value_pairs)
    /\ leaves' = Append(leaves, key_value_pairs[Len(leaves) + 1])
    /\ UNCHANGED <<chainVars, host_pc, scriptVars, gen_block, targets,
                   encoded_transactions, key_value_pairs, computed_root,
                   root_mismatch, proof_bytes, gen_result, tampered, engineVars,
                   outVars, keyVars>>

AllLeavesAdded_Partial(added, pairs) == Len(added) >= 1

\* The add_leaf loop has run over every pair.
AllLeavesAdded(added, pairs) == Len(added) = Len(pairs)

RootMismatchIsFatal_Yes == TRUE

\* A root mismatch is only printed.
RootMismatchIsFatal == FALSE

\* Step 5: the root, compared with the header's root of the same block.
GenRoot ==
    /\ host_pc = "gen_adding"
    /\ AllLeavesAdded(leaves, key_value_pairs)
    /\ computed_root' = HashBuilderRoot(leaves)
    /\ root_mismatch' = (computed_root' # gen_block.header.transactions_root)
    /\ IF root_mismatch' /\ RootMismatchIsFatal
       THEN /\ gen_result' = <<"err", "RootMismatch">>
            /\ host_pc' = "failed"
       ELSE /\ host_pc' = "gen_rooted"
            /\ UNCHANGED gen_result
    /\ UNCHANGED <<chainVars, scriptVars, gen_block, targets, encoded_transactions,
                   key_value_pairs, leaves, proof_bytes, tampered, engineVars,
                   outVars, keyVars>>

\* Step 6: encoded_transactions[tx_index] (bounds-checked), then the nodes
\* the retainer kept, sorted by path.
GenTakeProof ==
    /\ host_pc = "gen_rooted"
    /\ IF tx_index >= Len(encoded_transactions)
       THEN /\ gen_result' = <<"panic", "IndexOutOfBounds">>
            /\ host_pc' = "panicked"
            /\ UNCHANGED proof_bytes
       ELSE /\ proof_bytes' = IntoNodesSorted(RetainedNodes(leaves, targets))
            /\ host_pc' = "gen_extracted"
            /\ UNCHANGED gen_result
    /\ UNCHANGED <<chainVars, scriptVars, gen_block, targets, encoded_transactions,
                   key_value_pairs, leaves, computed_root, root_mismatch, tampered,
                   engineVars, outVars, keyVars>>

SelfCheckReturn_Unchecked(root, nibbles, value, proof) == <<"ok", proof, value>>

\* The match on verify_proof's result: Ok goes on to return the proof and
\* the encoded transaction, Err returns the validation error.
SelfCheckReturn(root, nibbles, value, proof) ==
    IF VerifyProof(root, nibbles, value, proof)
    THEN <<"ok", proof, value>>
    ELSE <<"err", "SelfCheckFailed">>

\* Step 7: the self-check against the computed root, then the return.
GenSelfCheck ==
    /\ host_pc = "gen_extracted"
    /\ LET target_nibbles == CHOOSE t \in targets : TRUE
           target_tx_encoded == encoded_transactions[tx_index + 1]
       IN  /\ gen_result' = SelfCheckReturn(computed_root, target_nibbles,
                                            target_tx_encoded, proof_bytes)
           /\ host_pc' = IF gen_result'[1] = "ok" THEN "gen_returned" ELSE "failed"
    /\ UNCHANGED <<chainVars, scriptVars, gen_block, targets, encoded_transactions,
                   key_value_pairs, leaves, computed_root, root_mismatch,
                   proof_bytes, tampered, engineVars, outVars, keyVars>>

\* ------------------------------------------------------ script (main.rs)
\* The Input Bundle, serialised and written to the program's stdin.
BuildInput ==
    /\ host_pc = "gen_returned"
    /\ stdin' = BincodeSerialize(
                    [block_header |-> block_header,
                     raw_transaction |-> gen_result[3],
                     transaction_index |-> tx_index,
                     merkle_proof |-> gen_result[2]])
    /\ host_pc' = "submitted"
    /\ UNCHANGED <<chainVars, tx_index, block_header, genVars, tampered, engineVars,
                   outVars, keyVars>>

\* ------------------------------------------------- adversarial stdin
\* The program reads whatever bytes it is given; the altered inputs are
\* derived from a bundle the script built from one view of the chain.
\* A node changed in place: still a decodable node, but a different one.
ChangedNode(node) ==
    IF node[1] = "leaf" THEN <<"leaf", node[2], node[3] \o <<0>>>>
    ELSE IF node[1] = "ext" THEN <<"ext", node[2] \o <<0>>, node[3]>>
    ELSE <<"branch", [n \in 1..16 |-> IF n = 16 THEN EMPTY_ROOT_HASH ELSE node[2][n]]>>

Replace(seq, j, x) == [i \in 1..Len(seq) |-> IF i = j THEN x ELSE seq[i]]

TamperedInputs(b) ==
    {<<"empty_proof", [b EXCEPT !.merkle_proof = <<>>]>>}
    \cup {<<"short_proof",
            [b EXCEPT !.merkle_proof = SubSeq(@, 1, Len(@) - 1)]>> :
              x \in {y \in {Len(b.merkle_proof)} : y >= 2}}
    \cup {<<"bad_node", [b EXCEPT !.merkle_proof = Replace(@, j, <<"bad", j>>)]>> :
              j \in 1..Len(b.merkle_proof)}
    \cup {<<"changed_node",
            [b EXCEPT !.merkle_proof = Replace(@, j, ChangedNode(@[j]))]>> :
              j \in 1..Len(b.merkle_proof)}
    \cup {<<"wrong_value", [b EXCEPT !.raw_transaction = Encoded2718(t)]>> :
              t \in {u \in TxIds : Encoded2718(u) # b.raw_transaction}}
    \cup {<<"wrong_index", [b EXCEPT !.transaction_index = j]>> :
              j \in (0..MaxTxs) \ {b.transaction_index}}

Tamper ==
    /\ host_pc = "submitted"
    /\ engine_pc = "idle"
    /\ tampered = "none"
    /\ reorgs = 0
    /\ \/ /\ \E k \in 0..(Len(stdin) - 1) : stdin' = SubSeq(stdin, 1, k)
          /\ tampered' = "truncated"
       \/ \E t \in TamperedInputs(BincodeDeserialize(stdin).value) :
             /\ stdin' = BincodeSerialize(t[2])
             /\ tampered' = t[1]
    /\ UNCHANGED <<chainVars, host_pc, tx_index, block_header, genVars, engineVars,
                   outVars, keyVars>>

\* ------------------------------------------------- program (main.rs)
\* io::read and bincode::deserialize(..).unwrap()
EngineRead ==
    /\ host_pc = "submitted"
    /\ engine_pc = "idle"
    /\ LET d == BincodeDeserialize(stdin)
       IN  IF d.ok
           THEN /\ input' = d.value
                /\ engine_pc' = "read"
           ELSE /\ engine_pc' = "aborted"
                /\ UNCHANGED input
    /\ UNCHANGED <<chainVars, host_pc, scriptVars, genVars, tampered, verifier_root,
                   proof_record, committed, outVars, keyVars>>

VerifierRootArg_HostRoot(inp) == computed_root

\* The root handed to verify_merkle_proof.
VerifierRootArg(inp) == inp.block_header.transactions_root

\* The hashes, the key, the verification and the TransactionInclusionProof.
EngineVerify ==
    /\ engine_pc = "read"
    /\ LET computed_block_hash == HashSlow(input.block_header)
           target_tx_hash == Keccak256(<<"raw", input.raw_transaction>>)
           key == EngineKey(U64BeBytes(input.transaction_index))
           root == VerifierRootArg(input)
           is_included == verify_merkle_proof(key, input.raw_transaction,
                                              input.merkle_proof, root)
       IN  /\ verifier_root' = root
           /\ proof_record' =
                  [block_hash |-> computed_block_hash,
                   block_number |-> input.block_header.number,
                   transaction_hash |-> target_tx_hash,
                   transaction_index |-> input.transaction_index,
                   is_included |-> is_included,
                   verified_against_root |-> input.block_header.transactions_root]
    /\ engine_pc' = "verified"
    /\ UNCHANGED <<chainVars, host_pc, scriptVars, genVars, tampered, input,
                   committed, outVars, keyVars>>

\* commit_slice(&PublicValuesStruct::abi_encode(..))
EngineCommit ==
    /\ engine_pc = "verified"
    /\ committed' = Append(committed, AbiEncode(PublicValuesStruct(proof_record)))
    /\ engine_pc' = "committed"
    /\ UNCHANGED <<chainVars, host_pc, scriptVars, genVars, tampered, input,
                   verifier_root, proof_record, outVars, keyVars>>

\* ------------------------------------------------------ script (main.rs)
\* client.execute(ELF, &stdin).run(), then abi_decode of the output: a
\* program that panicked makes execute fail, a failed decode is an error.
ScriptDecode ==
    /\ host_pc = "submitted"
    /\ engine_pc \in {"committed", "aborted"}
    /\ IF engine_pc = "aborted"
       THEN /\ host_pc' = "exec_failed"
            /\ UNCHANGED decoded
       ELSE LET d == AbiDecode(committed[1])
            IN  /\ decoded' = [ok |-> d.ok,
                               value |-> IF d.ok THEN d.value ELSE decoded.value]
                /\ host_pc' = IF d.ok THEN "decoded" ELSE "decode_failed"
    /\ UNCHANGED <<chainVars, scriptVars, genVars, tampered, engineVars, fixture,
                   keyVars>>

\* ------------------------------------------------------- script (evm.rs)
\* The same bundle proved instead of executed, then create_proof_fixture:
\* bincode::deserialize of the public values into TransactionInclusionProof,
\* `?` on its error. A program that panicked makes the prover fail.
CreateFixture ==
    /\ host_pc = "submitted"
    /\ engine_pc \in {"committed", "aborted"}
    /\ IF engine_pc = "aborted"
       THEN /\ host_pc' = "exec_failed"
            /\ UNCHANGED fixture
       ELSE \E prefixed \in BOOLEAN :
                \E r \in BincodeDecodeProof(committed[1], prefixed) :
                    /\ fixture' = r
                    /\ host_pc' = IF r.ok THEN "fixture_written" ELSE "fixture_failed"
    /\ UNCHANGED <<chainVars, scriptVars, genVars, tampered, engineVars, decoded,
                   keyVars>>

\* -------------------------------------------------------- specification
Next ==
    \/ Reorg
    \/ Locate
    \/ FetchBlock
    \/ GenFetch
    \/ GenCheckIndex
    \/ GenConfigureRetainer
    \/ GenPrepare
    \/ GenAddLeaf
    \/ GenRoot
    \/ GenTakeProof
    \/ GenSelfCheck
    \/ BuildInput
    \/ Tamper
    \/ EngineRead
    \/ EngineVerify
    \/ EngineCommit
    \/ ScriptDecode
    \/ CreateFixture

Spec == Init /\ [][Next]_vars

\* ------------------------------------- key derivation, both call sites
\* Bytes from which the 64-bit indices are drawn: the single-byte boundary
\* of RLP (0x7f, 0x80) and zero.
KeyBytePool == {0, 127, 128}

KeyInit ==
    /\ chain = NoBlock
    /\ InitProgram
    /\ key_pc = "start"
    /\ key_index \in [1..U64_BYTES -> KeyBytePool]
    /\ builder_key = <<>>
    /\ engine_key = <<>>

\* lib.rs: the key under which the Builder places or targets the index.
KeyDeriveBuilder ==
    /\ key_pc = "start"
    /\ builder_key' = BuilderKey(key_index)
    /\ key_pc' = "builder"
    /\ UNCHANGED <<chainVars, host_pc, scriptVars, genVars, tampered, engineVars,
                   outVars, key_index, engine_key>>

\* program main.rs: the key the program derives from transaction_index.
KeyDeriveEngine ==
    /\ key_pc = "builder"
    /\ engine_key' = EngineKey(key_index)
    /\ key_pc' = "done"
    /\ UNCHANGED <<chainVars, host_pc, scriptVars, genVars, tampered, engineVars,
                   outVars, key_index, builder_key>>

KeyNext == KeyDeriveBuilder \/ KeyDeriveEngine

KeySpec == KeyInit /\ [][KeyNext]_vars

\* ===================================================================
\* Properties
\* ===================================================================
HostPastIndexCheck ==
    host_pc \notin {"start", "located", "fetched", "gen_fetched"}

GenBlockSize == Len(gen_block.transactions)

\* The big-endian value of literal output bytes.
RECURSIVE BeValue(_)
BeValue(bytes) ==
    IF bytes = <<>> THEN 0
    ELSE 256 * BeValue(SubSeq(bytes, 1, Len(bytes) - 1)) + bytes[Len(bytes)][2]

OutputWord(out, w) == SubSeq(out, ABI_WORD * (w - 1) + 1, ABI_WORD * w)

IsHashWord(word, d) ==
    Len(word) = 32 /\ \A k \in 1..32 : word[k] = <<"h", d, k>>

IsPaddedNumber(word, width, n) ==
    /\ Len(word) = 32
    /\ \A k \in 1..(32 - width) : word[k] = <<"b", 0>>
    /\ \A k \in (32 - width + 1)..32 : word[k][1] = "b"
    /\ BeValue(SubSeq(word, 32 - width + 1, 32)) = n

\* The script's bundle reached the program unaltered, and its header is the
\* header of the block the proof was generated from.
\* The positions of the script once generate_merkle_proof has returned Ok,
\* and once the generator has computed its root.
HostAfterReturn ==
    {"gen_returned", "submitted", "decoded", "decode_failed", "exec_failed",
     "fixture_written", "fixture_failed"}

HostAfterRoot == {"gen_rooted", "gen_extracted"} \cup HostAfterReturn

HonestRun ==
    /\ engine_pc = "committed"
    /\ tampered = "none"
    /\ block_header = gen_block.header

\* C1 (as stated): for every block with N >= 1 transactions and every index
\* i < N, the generated proof and raw transaction, bundled with that block's
\* header and index i, make the program commit is_included = true, and the
\* verified raw transaction is the canonical encoding of transaction i.
C1_AsStated ==
    (HonestRun /\ GenBlockSize >= 1 /\ tx_index < GenBlockSize)
        => /\ proof_record.is_included
           /\ input.raw_transaction = Encoded2718(gen_block.transactions[tx_index + 1])

\* C1 (amended): the same, for every block whose header states the root of
\* the trie of its own transactions.
C1_InclusionWhenRootConsistent ==
    (/\ HonestRun
     /\ GenBlockSize >= 1
     /\ tx_index < GenBlockSize
     /\ gen_block.header.transactions_root = TransactionsRootOf(gen_block.transactions))
        => /\ proof_record.is_included
           /\ input.raw_transaction = Encoded2718(gen_block.transactions[tx_index + 1])
           /\ IsPaddedNumber(OutputWord(committed[1], 5), 1, 1)

C1_Witness ==
    /\ HonestRun
    /\ GenBlockSize = MaxTxs
    /\ tx_index = 0
    /\ proof_record.is_included

\* C2: the root passed to the Proof Verifier and the committed
\* verified_against_root are both the transactions_root of the bundle's
\* header, whatever root the host computed.
C2_RootIsHeaderRoot ==
    /\ engine_pc \in {"verified", "committed"}
           => /\ verifier_root = input.block_header.transactions_root
              /\ proof_record.verified_against_root = input.block_header.transactions_root
              /\ BincodeSerialize(input) = stdin
    /\ engine_pc = "committed"
           => IsHashWord(OutputWord(committed[1], 6), input.block_header.transactions_root)

C2_Witness ==
    /\ engine_pc = "committed"
    /\ tampered = "none"
    /\ root_mismatch
    /\ verifier_root # computed_root

\* C3 (as stated): on a block without transactions generate_merkle_proof
\* returns a NoTransactions error value and produces no proof and no record.
C3_EmptyBlockNoTransactionsError ==
    (HostPastIndexCheck /\ GenBlockSize = 0)
        => /\ gen_result = <<"err", "NoTransactions">>
           /\ host_pc = "failed"
           /\ proof_bytes = <<>>
           /\ committed = <<>>

\* C4: with N >= 1 transactions and an index >= N, generate_merkle_proof
\* fails with the out-of-range error before a retainer or trie exists and
\* returns no proof.
C4_IndexOutOfRangeFails ==
    (HostPastIndexCheck /\ GenBlockSize >= 1 /\ tx_index >= GenBlockSize)
        => /\ gen_result = <<"err", "IndexOutOfRange">>
           /\ host_pc = "failed"
           /\ targets = {}
           /\ key_value_pairs = <<>>
           /\ leaves = <<>>
           /\ proof_bytes = <<>>
           /\ stdin = <<>>

C4_Witness ==
    /\ host_pc = "failed"
    /\ GenBlockSize >= 1
    /\ tx_index = GenBlockSize
    /\ gen_result = <<"err", "IndexOutOfRange">>

\* C5: a computed root that differs from the header's root does not make
\* generate_merkle_proof fail: it is only logged, and the function returns
\* the proof of the computed trie with the target's encoded transaction.
C5_RootMismatchNotFatal ==
    /\ host_pc \in HostAfterRoot
           => root_mismatch = (computed_root # gen_block.header.transactions_root)
    /\ root_mismatch
           => /\ host_pc \in HostAfterRoot
              /\ gen_result[1] \in {"none", "ok"}
    /\ (root_mismatch /\ host_pc \in HostAfterReturn)
           => /\ gen_result[1] = "ok"
              /\ gen_result[3] = Encoded2718(gen_block.transactions[tx_index + 1])
              /\ VerifyProof(TransactionsRootOf(gen_block.transactions),
                             NibblesUnpack(EngineKey(U64BeBytes(tx_index))),
                             gen_result[3], gen_result[2])
              /\ ~VerifyProof(gen_block.header.transactions_root,
                              NibblesUnpack(EngineKey(U64BeBytes(tx_index))),
                              gen_result[3], gen_result[2])

C5_Witness ==
    /\ host_pc = "gen_returned"
    /\ root_mismatch
    /\ gen_result[1] = "ok"

\* C6: when the bytes the program reads do not deserialize, the run aborts
\* and nothing is committed.
C6_UndeserializableAborts ==
    (engine_pc # "idle" /\ ~BincodeParses(stdin))
        => /\ engine_pc = "aborted"
           /\ committed = <<>>
           /\ proof_record = NoRecord

C6_Witness ==
    /\ engine_pc = "aborted"
    /\ tampered = "truncated"
    /\ Len(stdin) >= 5

\* C7: for every bundle that deserializes, whatever its proof, the run does
\* not abort and commits exactly one output; a failing proof shows only as
\* is_included = false.
C7_MalformedProofCommitsFalse ==
    /\ Len(committed) <= 1
    /\ (engine_pc # "idle" /\ BincodeParses(stdin)) => engine_pc # "aborted"
    /\ (engine_pc = "committed") <=> (Len(committed) = 1)
    /\ (engine_pc = "committed"
        /\ tampered \in {"empty_proof", "short_proof", "bad_node", "changed_node"})
           => /\ ~proof_record.is_included
              /\ IsPaddedNumber(OutputWord(committed[1], 5), 1, 0)

C7_Witness ==
    /\ engine_pc = "committed"
    /\ tampered = "bad_node"
    /\ Len(committed) = 1
    /\ ~proof_record.is_included

\* The nibble expansion of a byte string, position by position.
IsNibbleExpansion(path, bytes) ==
    /\ Len(path) = 2 * Len(bytes)
    /\ \A i \in 1..Len(bytes) :
           /\ path[2 * i - 1] = bytes[i] \div 16
           /\ path[2 * i] = bytes[i] % 16

\* C8 (as stated): the key of a position is its minimal big-endian byte
\* encoding, the empty string for position 0.
C8_KeyIsMinimalBigEndian ==
    key_pc = "done"
        => /\ engine_key = StripLeadingZeros(key_index)
           /\ builder_key = StripLeadingZeros(key_index)

\* C8 (amended): the key of a position is the RLP encoding of the integer:
\* the byte 0x80 for position 0, the byte itself for positions 1..127, and
\* otherwise the byte 0x80 + n followed by the n bytes of the minimal
\* big-endian encoding; the trie path is the nibble expansion of those bytes.
C8_KeyIsRlpOfIndex ==
    key_pc = "done"
        => LET m == StripLeadingZeros(key_index)
               rlp == IF m = <<>> THEN <<128>>
                      ELSE IF Len(m) = 1 /\ m[1] <= 127 THEN m
                      ELSE <<128 + Len(m)>> \o m
           IN  /\ engine_key = rlp
               /\ builder_key = rlp
               /\ IsNibbleExpansion(NibblesUnpack(engine_key), rlp)
               /\ IsNibbleExpansion(NibblesUnpack(builder_key), rlp)

C8_Witness ==
    /\ key_pc = "done"
    /\ key_index = <<0, 0, 0, 0, 0, 0, 0, 128>>
    /\ engine_key = <<129, 128>>

\* C9: for every 64-bit index the Builder's key (the index widened to 256
\* bits, then encoded) is byte for byte the key the program derives from the
\* 64-bit index, and so are the nibble paths.
C9_BuilderKeyEqualsEngineKey ==
    key_pc = "done"
        => /\ builder_key = engine_key
           /\ NibblesUnpack(builder_key) = NibblesUnpack(engine_key)

C9_Witness ==
    /\ key_pc = "done"
    /\ key_index[1] = 128
    /\ Len(engine_key) = 9
    /\ builder_key = engine_key

\* C10 (as stated): the committed output is 32+8+32+8+1+32 bytes: the fields
\* at their own widths, one after the other.
C10_PackedLayout ==
    engine_pc = "committed"
        => LET out == committed[1]
           IN  /\ Len(out) = 32 + 8 + 32 + 8 + 1 + 32
               /\ IsHashWord(SubSeq(out, 1, 32), proof_record.block_hash)
               /\ BeValue(SubSeq(out, 33, 40)) = proof_record.block_number

\* C10 (amended): the committed output is six 32-byte words in field order:
\* block_hash, block_number (8 bytes big-endian after 24 zero bytes),
\* transaction_hash, transaction_index (8 bytes big-endian after 24 zero
\* bytes), is_included (1 byte after 31 zero bytes), verified_against_root;
\* 192 bytes, and every assembled record is encoded and committed.
C10_WordLayout ==
    /\ engine_pc = "verified" => ENABLED EngineCommit
    /\ engine_pc = "committed"
           => LET out == committed[1]
              IN  /\ Len(out) = 6 * 32
                  /\ IsHashWord(OutputWord(out, 1), proof_record.block_hash)
                  /\ IsPaddedNumber(OutputWord(out, 2), 8, proof_record.block_number)
                  /\ IsHashWord(OutputWord(out, 3), proof_record.transaction_hash)
                  /\ IsPaddedNumber(OutputWord(out, 4), 8, proof_record.transaction_index)
                  /\ IsPaddedNumber(OutputWord(out, 5), 1,
                                    IF proof_record.is_included THEN 1 ELSE 0)
                  /\ IsHashWord(OutputWord(out, 6), proof_record.verified_against_root)

C10_Witness ==
    /\ engine_pc = "committed"
    /\ proof_record.block_number = 258
    /\ proof_record.transaction_index = 2
    /\ proof_record.is_included
    /\ Len(committed[1]) = 192

\* ------------------------------------------------------------------ C11
\* C11: decoding the committed bytes with the script's own PublicValuesStruct
\* (abi_decode with validation) succeeds and reproduces the six fields of the
\* proof record the program assembled.
C11_AbiRoundTrip ==
    /\ engine_pc = "committed"
           => AbiDecode(committed[1])
                  = [ok |-> TRUE, value |-> PublicValuesStruct(proof_record)]
    /\ host_pc = "decoded"
           => /\ decoded.ok
              /\ decoded.value.blockHash = proof_record.block_hash
              /\ decoded.value.blockNumber = proof_record.block_number
              /\ decoded.value.transactionHash = proof_record.transaction_hash
              /\ decoded.value.transactionIndex = proof_record.transaction_index
              /\ decoded.value.isIncluded = proof_record.is_included
              /\ decoded.value.verifiedAgainstRoot = proof_record.verified_against_root

C11_Witness ==
    /\ host_pc = "decoded"
    /\ decoded.value.blockNumber = 258
    /\ decoded.value.transactionIndex = 2
    /\ decoded.value.isIncluded
    /\ decoded.value.blockHash = HashSlow(block_header)

\* ------------------------------------------------------------------ C12
\* The nodes a change of one byte can turn a node into: bytes that decode as
\* no node, a leaf with another value or another path, a branch with one
\* child reference changed.
NodeVariants(node, j) ==
    {<<"bad", j>>}
    \cup (IF node[1] = "leaf"
          THEN {<<"leaf", node[2], node[3] \o <<0>>>>,
                <<"leaf", node[2] \o <<0>>, node[3]>>,
                <<"leaf", node[2], <<1>> \o node[3]>>}
          ELSE IF node[1] = "ext"
          THEN {<<"ext", node[2] \o <<0>>, node[3]>>,
                <<"ext", node[2], Keccak256(<<"changed">>)>>}
          ELSE {<<"branch", [n \in 1..16 |-> IF n = m THEN Keccak256(<<"changed">>)
                                                       ELSE node[2][n]]>> :
                    m \in 1..16})

\* The key, value and root of the proof the generator holds.
HeldKey == EngineKey(U64BeBytes(tx_index))
HeldValue == encoded_transactions[tx_index + 1]

\* C12: for a proof that verifies against its root, key and value, the same
\* proof with one node changed does not verify against them; and a run of
\* the program on a bundle with one node so changed commits is_included =
\* false.
C12_ChangedNodeFails ==
    /\ (/\ host_pc = "gen_returned"
        /\ verify_merkle_proof(HeldKey, HeldValue, proof_bytes, computed_root))
           => \A j \in 1..Len(proof_bytes) :
                  \A changed \in NodeVariants(proof_bytes[j], j) :
                      ~verify_merkle_proof(HeldKey, HeldValue,
                                           Replace(proof_bytes, j, changed),
                                           computed_root)
    /\ (/\ engine_pc \in {"verified", "committed"}
        /\ tampered \in {"changed_node", "bad_node"})
           => ~proof_record.is_included

C12_Witness ==
    /\ engine_pc = "committed"
    /\ tampered = "changed_node"
    /\ Len(proof_bytes) >= 2
    /\ input.merkle_proof[1] # proof_bytes[1]
    /\ computed_root = input.block_header.transactions_root
    /\ verify_merkle_proof(HeldKey, HeldValue, proof_bytes, computed_root)
    /\ ~proof_record.is_included

\* ------------------------------------------------------------------ C13
\* C13: a proof generated for index i, verified against the same root and
\* key with the encoding of another transaction of the block as the value,
\* does not verify; and a run of the program on a bundle whose raw
\* transaction was so replaced commits is_included = false.
C13_WrongValueFails ==
    /\ (/\ host_pc = "gen_returned"
        /\ verify_merkle_proof(HeldKey, HeldValue, proof_bytes, computed_root))
           => \A j \in 1..Len(encoded_transactions) :
                  j # tx_index + 1
                      => ~verify_merkle_proof(HeldKey, encoded_transactions[j],
                                              proof_bytes, computed_root)
    /\ (/\ engine_pc \in {"verified", "committed"}
        /\ tampered = "wrong_value")
           => ~proof_record.is_included

\* T0, T1, T2: the proof for index 1 verifies with encode(T1) and the program
\* run with encode(T2) in its place committed false.
C13_Witness ==
    /\ engine_pc = "committed"
    /\ tampered = "wrong_value"
    /\ Len(encoded_transactions) = 3
    /\ tx_index = 1
    /\ computed_root = input.block_header.transactions_root
    /\ verify_merkle_proof(HeldKey, encoded_transactions[2], proof_bytes, computed_root)
    /\ input.raw_transaction = encoded_transactions[3]
    /\ input.merkle_proof = proof_bytes
    /\ ~proof_record.is_included

\* ------------------------------------------------------------------ C14
\* C14: every field of a committed proof record is recomputed by the program
\* or has passed a check by it: block_hash and transaction_hash are
\* recomputed, block_number and verified_against_root are the fields of the
\* header that block_hash is the hash of, and transaction_index is an index
\* whose key the proof verifies for the raw transaction against that root.
C14_EveryFieldRecomputedOrChecked ==
    engine_pc = "committed"
        => /\ proof_record.block_hash = HashSlow(input.block_header)
           /\ proof_record.transaction_hash
                  = Keccak256(<<"raw", input.raw_transaction>>)
           /\ proof_record.block_hash
                  = HashSlow([number |-> proof_record.block_number,
                              transactions_root |-> proof_record.verified_against_root])
           /\ verify_merkle_proof(EngineKey(U64BeBytes(proof_record.transaction_index)),
                                  input.raw_transaction, input.merkle_proof,
                                  proof_record.verified_against_root)

\* ------------------------------------------------------------------ C15
RetainerConfigured == targets = {NibblesUnpack(BuilderKey(U64BeBytes(tx_index)))}

ProofTaken ==
    \/ proof_bytes # <<>>
    \/ host_pc \in {"gen_extracted"} \cup HostAfterReturn
    \/ gen_result[1] = "ok"

\* C15: entries are added only once the retainer holds the target key, the
\* root is computed only over all N entries, and proof nodes are taken only
\* after that root was computed: never while fewer than N entries are in.
C15_StepOrder ==
    /\ leaves # <<>> => RetainerConfigured
    /\ (host_pc = "gen_rooted" \/ ProofTaken)
           => /\ RetainerConfigured
              /\ GenBlockSize >= 1
              /\ Len(leaves) = GenBlockSize
              /\ computed_root = HashBuilderRoot(leaves)
              /\ computed_root # EMPTY_ROOT_HASH
    /\ host_pc = "gen_adding" => proof_bytes = <<>> /\ computed_root = EMPTY_ROOT_HASH

C15_Witness ==
    /\ host_pc = "gen_returned"
    /\ GenBlockSize = 3
    /\ Len(leaves) = 3
    /\ Len(proof_bytes) >= 2
    /\ gen_result[1] = "ok"

\* ------------------------------------------------------------------ C16
\* The listings of the same pairs in another order.
Listings(pairs) ==
    {[i \in 1..Len(pairs) |-> pairs[f[i]]] :
        f \in {g \in [1..Len(pairs) -> 1..Len(pairs)] :
                  \A a, b \in 1..Len(pairs) : a # b => g[a] # g[b]}}

IndexKey(i) == NibblesUnpack(BuilderKey(U64BeBytes(i)))

\* C16: the leaves go into the builder in strictly ascending nibble order of
\* their keys, each of the N entries exactly once; the key of index 0 sorts
\* after the keys of indices 1..127, so index 0 is added last; and the root
\* is the same for every order in which the pairs could have been listed.
C16_AscendingOnceAndOrderFree ==
    /\ host_pc \in {"gen_adding", "gen_rooted"}
           => \A i, j \in 1..Len(leaves) :
                  i < j => NibblesLess(leaves[i].key, leaves[j].key)
    /\ (host_pc = "gen_rooted" /\ tx_index = 0)
           => LET key0 == IndexKey(0)
              IN  \A i \in 1..127 : NibblesLess(IndexKey(i), key0)
    /\ host_pc = "gen_rooted"
           => /\ Len(leaves) = GenBlockSize
              /\ \A i \in 1..GenBlockSize :
                     Cardinality({j \in 1..Len(leaves) :
                                     leaves[j] = KeyValuePairs(gen_block.transactions)[i]})
                         = 1
              /\ leaves[Len(leaves)].key = IndexKey(0)
              /\ GenBlockSize >= 2 => leaves[1].key = IndexKey(1)
              /\ computed_root = HashBuilderRoot(leaves)
              /\ \A listing \in Listings(KeyValuePairs(gen_block.transactions)) :
                     SortByKey(listing) = leaves

C16_Witness ==
    /\ host_pc = "gen_rooted"
    /\ Len(leaves) = 3
    /\ leaves[1].key = IndexKey(1)
    /\ leaves[2].key = IndexKey(2)
    /\ leaves[3].key = IndexKey(0)
    /\ leaves # KeyValuePairs(gen_block.transactions)

\* ------------------------------------------------------------------ C17
\* C17: a returned Ok((proof, value)) holds a proof that verifies against
\* the computed root for the key of tx_index with that value, the value
\* being the encoding of the transaction at tx_index; and the self-check
\* step given a proof that does not verify returns the validation error and
\* no proof, although a root mismatch on the same run was let through.
C17_OkProofVerifies ==
    /\ gen_result[1] = "ok"
           => /\ VerifyProof(computed_root, IndexKey(tx_index), gen_result[3],
                             gen_result[2])
              /\ gen_result[3] = HeldValue
              /\ gen_result[2] = proof_bytes
    /\ host_pc \in {"gen_extracted", "gen_returned"}
           => \A j \in 1..Len(proof_bytes) :
                  \A changed \in NodeVariants(proof_bytes[j], j) :
                      LET proof == Replace(proof_bytes, j, changed)
                      IN  ~VerifyProof(computed_root, IndexKey(tx_index), HeldValue, proof)
                              => SelfCheckReturn(computed_root, IndexKey(tx_index),
                                                 HeldValue, proof)
                                     = <<"err", "SelfCheckFailed">>

C17_Witness ==
    /\ host_pc = "gen_returned"
    /\ gen_result[1] = "ok"
    /\ root_mismatch
    /\ Len(gen_result[2]) >= 2
    /\ tx_index = 2
    /\ SelfCheckReturn(computed_root, IndexKey(tx_index), HeldValue,
                       Replace(proof_bytes, 1, <<"bad", 1>>))[1] = "err"

\* ------------------------------------------------------------------ C18
\* C18: the header in the Input Bundle states the transactions root that
\* generate_merkle_proof compared its computed root against, whatever the
\* provider answered between the script's get_block and the generator's.
C18_OneConsistentView ==
    (host_pc \in HostAfterReturn /\ gen_result[1] = "ok")
        => block_header.transactions_root = gen_block.header.transactions_root

\* ------------------------------------------------------------------ C19
\* C19: create_proof_fixture decodes the committed public values, and the
\* fields it puts in the fixture are the fields of the proof record the
\* program assembled.
C19_FixtureFieldsEqualRecord ==
    /\ host_pc # "fixture_failed"
    /\ host_pc = "fixture_written"
           => /\ fixture.ok
              /\ fixture.value.block_hash = proof_record.block_hash
              /\ fixture.value.block_number
                     = LitBytes(U64LeBytes(proof_record.block_number))
              /\ fixture.value.transaction_hash = proof_record.transaction_hash
              /\ fixture.value.transaction_index
                     = LitBytes(U64LeBytes(proof_record.transaction_index))
              /\ fixture.value.is_included = proof_record.is_included
              /\ fixture.value.verified_against_root
                     = proof_record.verified_against_root

\* ------------------------------------------------------------------ C20
\* The bundle's header states another root than the one the host computed.
BundleRootDiffers == computed_root # block_header.transactions_root

\* C20: when the host-computed root differs from the stated root of the
\* bundle's header, the script still builds and submits the bundle, and the
\* program run on it commits is_included = false with verified_against_root
\* the header's stated root, in the record and in the committed bytes; and
\* whenever the program records is_included = true, the proof verifies
\* against the header's stated root.
C20_MismatchCommitsFalse ==
    /\ (host_pc = "gen_returned" /\ BundleRootDiffers) => ENABLED BuildInput
    /\ (host_pc = "submitted" /\ BundleRootDiffers /\ tampered = "none")
           => BincodeDeserialize(stdin).value.block_header = block_header
    /\ (engine_pc \in {"verified", "committed"} /\ BundleRootDiffers
           /\ tampered = "none")
           => /\ ~proof_record.is_included
              /\ proof_record.verified_against_root = block_header.transactions_root
              /\ proof_record.verified_against_root # computed_root
    /\ (engine_pc = "committed" /\ BundleRootDiffers /\ tampered = "none")
           => /\ AbiDecode(committed[1]).value.isIncluded = FALSE
              /\ AbiDecode(committed[1]).value.verifiedAgainstRoot
                     = block_header.transactions_root
    /\ (engine_pc \in {"verified", "committed"} /\ proof_record.is_included)
           => verify_merkle_proof(EngineKey(U64BeBytes(input.transaction_index)),
                                  input.raw_transaction, input.merkle_proof,
                                  input.block_header.transactions_root)

C20_Witness ==
    /\ engine_pc = "committed"
    /\ tampered = "none"
    /\ reorgs = 0
    /\ root_mismatch
    /\ BundleRootDiffers
    /\ VerifyProof(computed_root, IndexKey(tx_index), input.raw_transaction,
                   input.merkle_proof)
    /\ ~proof_record.is_included
    /\ proof_record.verified_against_root = gen_block.header.transactions_root

====
